---- MODULE Spec2Model ----
(***************************************************************************)
(* Model of src/ssm_pkg/main.py (Sour CLI Sys Monitor): the main           *)
(* sample/render loop, the three key listener threads, and the speedtest   *)
(* worker threads sharing the module-level globals.                        *)
(*                                                                         *)
(* Threads are interleaved at the granularity of one access to a shared    *)
(* global (or one lock operation) per step.  Program counters of the       *)
(* worker and of the main loop are named after source line numbers.        *)
(***************************************************************************)
EXTENDS Integers, Sequences, FiniteSets, TLC

\* ---------------------------------------------------------------- bounds
\* worker thread slots that can hold a live or finished _worker thread
MaxWorkers == 2
\* stdout lines of one speedtest-cli run
MaxLines == 2
\* stdout lines of one run where the main loop is interleaved with the worker
MaxLinesFlags == 1
\* stdout lines of one run in the long single-run specification
MaxLinesProbe == 250
\* presses of the 'k', 'f' and 'n' keys
MaxPressK == 2
MaxPressF == 2
MaxPressN == 3
\* 'n' key presses where the main loop's panel is interleaved with the worker
MaxPressNFlags == 1
\* 'n' key presses in the long single-run specification
MaxPressNProbe == 1
MaxPressNSecond == 3 \* 'n' presses up to and in a later run (two before it starts)
\* key presses of any kind when all threads are interleaved
MaxPresses == 2
MaxInterrupts == 1   \* KeyboardInterrupts delivered
MaxClock == 3        \* readings of time.time(): 1..MaxClock
MaxBytes == 2        \* byte counters: 0..MaxBytes
MaxCalls == 3        \* calls of get_system_stats on its own
MaxRank == 3         \* processes enumerated for get_top_processes on its own
MaxCpu == 2          \* cpu_percent values: 0..MaxCpu
MaxLimit == 4        \* limits: 0..MaxLimit
\* processes returned by get_top_processes
MaxProcs == 2
\* integers typed at the kill prompt range over -MaxChoice..MaxChoice
MaxChoice == 3
\* loop iterations are stamped modulo TickMod
TickMod == 2

\* ------------------------------------------------------ program constants
\* main.py:325-326  len(speed_samples) > 200 / speed_samples[-200:]
SampleCap == 200
\* main.py:220  speed_samples[-50:]
GraphWidth == 50

Workers == 1..MaxWorkers
\* holder id of speed_samples_lock for the main thread (0 = not held)
MainHolder == MaxWorkers + 1

\* ------------------------------------------------------------ pure helpers
Max(a, b) == IF a >= b THEN a ELSE b
Min(a, b) == IF a <= b THEN a ELSE b

\* Python slice s[-n:] for n > 0
LastN(s, n) == IF Len(s) <= n THEN s ELSE SubSeq(s, Len(s) - n + 1, Len(s))

\* Python subscript s[i] on a list: defined for -len <= i < len, negative
\* subscripts count from the end; anything else raises IndexError
PyIndexOK(s, i) == -Len(s) <= i /\ i < Len(s)
PyIndex(s, i) == IF i >= 0 THEN s[i + 1] ELSE s[Len(s) + i + 1]

\* main.py:322  sample_mbps = max(down_bps, up_bps) * 8.0 / 1_000_000.0
\* with the two rates given in units of 125000 bytes/s (= 1 Mbit/s)
SampleMbps(down, up) == Max(down, up)

\* main.py:220  one glyph per sample: filled iff x > 0
Glyph(x) == IF x > 0 THEN "#" ELSE " "
GraphLine(s) == [i \in 1..Len(LastN(s, GraphWidth)) |-> Glyph(LastN(s, GraphWidth)[i])]

\* main.py:221  text shown in the panel
PanelText(text, running) ==
    IF text # <<>> THEN text
    ELSE IF running THEN <<"(running...)">> ELSE <<"(not started)">>

\* process lists get_top_processes can return (pids, in listed order)
AllPids == <<11, 12, 13, 14, 15>>
ProcLists == {SubSeq(AllPids, 1, n) : n \in 0..Min(MaxProcs, Len(AllPids))}

\* what the user can type at the kill prompt: an integer or something int()
\* rejects
Inputs == [isInt : {TRUE}, n : (-MaxChoice)..MaxChoice] \cup {[isInt |-> FALSE, n |-> 0]}
NoInput == [isInt |-> FALSE, n |-> 1]

VARIABLES
    \* main.py:21-30 module globals
    prev_time,               \* time stamp of the previous get_system_stats (the tick stamp
                             \* in the loop; a clock reading, 0 for None, on its own)
    kill_requested,
    freeze_requested,
    speedtest_toggle,
    speedtest_running,
    speedtest_result_text,   \* sequence of appended lines
    speedtest_error,         \* "None" or an error message tag
    speed_samples,
    speed_samples_lock,      \* 0 free, w held by worker w, MainHolder by main
    \* listener threads
    presses,                 \* key presses delivered so far, per key
    fpc, ftmp,               \* listen_for_freeze: position, loaded flag value
    npc, ntmp,               \* listen_for_speedtest_toggle: same
    lastStart,               \* outcome of the last run_speedtest_background call
    starts,                  \* history: calls of run_speedtest_background, threads started
    \* _worker threads
    wpc,                     \* per slot: position (source line) of the thread
    nread,                   \* per slot: stdout lines read so far
    appended,                \* history: samples appended since the last reset
    \* main thread
    mpc,                     \* position of the main loop
    tick,                    \* stamp of the current loop iteration
    stats, top_procs,        \* locals of main()
    layout,                  \* content last put into the layout by render_layout
    live,                    \* rich Live display: "started" / "stopped"
    choice, term_call, console,  \* kill prompt: input, pid given to kill_proc_tree, messages printed
    prompts,                 \* history: kill prompts opened
    interrupts,              \* KeyboardInterrupts delivered to the main thread
    \* get_system_stats on its own (main.py:21-22, 75-108)
    clock, net,              \* environment: time.time(), psutil.net_io_counters()
    prev_net,                \* <<>> for None, else <<bytes_sent, bytes_recv>>
    net_rates,               \* sent and received rate of the last snapshot
    spc,                     \* position: "idle", "l342" (main starts), "l354" (in the loop)
    ncalls,                  \* get_system_stats calls so far (counted up to 2)
    \* get_top_processes on its own (main.py:110-118)
    rank_procs, rank_limit,  \* the enumerated processes and the limit
    rank_out                 \* the value returned

flagVars == <<kill_requested, freeze_requested, speedtest_toggle>>
probeVars == <<speedtest_running, speedtest_result_text, speedtest_error,
               speed_samples, speed_samples_lock, appended>>
listenVars == <<presses, fpc, ftmp, npc, ntmp, lastStart, starts>>
workerVars == <<wpc, nread>>
mainVars == <<prev_time, mpc, tick, prompts, interrupts, stats, top_procs, layout, live, choice, term_call, console,
              prompts, interrupts>>
samplerVars == <<clock, net, prev_net, net_rates, spc, ncalls>>
rankVars == <<rank_procs, rank_limit, rank_out>>
vars == <<flagVars, probeVars, listenVars, workerVars, mainVars, samplerVars, rankVars>>

NoLayout == [stats |-> -1, procs |-> <<>>, network |-> <<"none">>]

\* main.py:21-30 and main():345-351: the globals, the listener threads
\* started, the main thread about to enter the loop
InitProgram ==
    /\ kill_requested = FALSE
    /\ freeze_requested = FALSE
    /\ speedtest_toggle = FALSE
    /\ speedtest_running = FALSE
    /\ speedtest_result_text = <<>>
    /\ speedtest_error = "None"
    /\ speed_samples = <<>>
    /\ speed_samples_lock = 0
    /\ presses = [key \in {"k", "f", "n"} |-> 0]
    /\ fpc = "wait" /\ ftmp = FALSE
    /\ npc = "wait" /\ ntmp = FALSE
    /\ lastStart = "none"
    /\ wpc = [w \in Workers |-> "none"]
    /\ nread = [w \in Workers |-> 0]
    /\ appended = <<>>
    /\ mpc = "l354"
    /\ tick = 0
    /\ stats = -1
    /\ top_procs = <<>>
    /\ layout = NoLayout
    /\ live = "started"
    /\ choice = NoInput
    /\ term_call = 0
    /\ console = <<>>
    /\ starts = [calls |-> 0, spawned |-> 0]
    /\ prompts = 0
    /\ interrupts = 0

\* get_system_stats and get_top_processes are not looked at on their own
SamplerIdle ==
    /\ clock = 1 /\ net = <<0, 0>> /\ prev_net = <<>>
    /\ net_rates = <<<<0, 1>>, <<0, 1>>>> /\ spc = "idle" /\ ncalls = 0
\* get_top_processes has not returned: an entry no enumeration holds (pids start at 1)
NoRank == <<[pid |-> 0, cpu_percent |-> 0]>>
RankIdle == rank_procs = <<>> /\ rank_limit = 0 /\ rank_out = NoRank

\* main.py:21-30 and main():342-351, up to the first loop iteration
Init == InitProgram /\ prev_time = -1 /\ SamplerIdle /\ RankIdle

TotalPresses == presses["k"] + presses["f"] + presses["n"]

\* ---------------------------------------------------------- key listeners
\* main.py:33-37  keyboard.wait("k") returns; kill_requested = True
listen_for_kill(maxp) ==
    /\ presses["k"] < maxp
    /\ presses' = [presses EXCEPT !["k"] = @ + 1]
    /\ kill_requested' = TRUE
    /\ UNCHANGED <<samplerVars, rankVars, freeze_requested, speedtest_toggle, probeVars, fpc, ftmp, npc, ntmp,
                   lastStart, starts, workerVars, mainVars>>

\* main.py:42-43  keyboard.wait("f") returns; the right-hand side
\* "not freeze_requested" is evaluated
FreezeKey(maxp) ==
    /\ fpc = "wait"
    /\ presses["f"] < maxp
    /\ presses' = [presses EXCEPT !["f"] = @ + 1]
    /\ ftmp' = ~freeze_requested
    /\ fpc' = "store"
    /\ UNCHANGED <<samplerVars, rankVars, flagVars, probeVars, npc, ntmp, lastStart, starts, workerVars, mainVars>>

\* main.py:43  the store to freeze_requested
FreezeStore ==
    /\ fpc = "store"
    /\ freeze_requested' = ftmp
    /\ fpc' = "wait"
    /\ UNCHANGED <<samplerVars, rankVars, kill_requested, speedtest_toggle, probeVars, presses, ftmp, npc, ntmp,
                   lastStart, starts, workerVars, mainVars>>

\* main.py:48-49  keyboard.wait("n") returns; "not speedtest_toggle" evaluated
SpeedKey(maxp) ==
    /\ npc = "wait"
    /\ presses["n"] < maxp
    /\ presses' = [presses EXCEPT !["n"] = @ + 1]
    /\ ntmp' = ~speedtest_toggle
    /\ npc' = "store"
    /\ UNCHANGED <<samplerVars, rankVars, flagVars, probeVars, fpc, ftmp, lastStart, starts, workerVars, mainVars>>

\* main.py:49  the store to speedtest_toggle
SpeedStore ==
    /\ npc = "store"
    /\ speedtest_toggle' = ntmp
    /\ npc' = "l50"
    /\ UNCHANGED <<samplerVars, rankVars, kill_requested, freeze_requested, probeVars, presses, fpc, ftmp, ntmp,
                   lastStart, starts, workerVars, mainVars>>

\* main.py:50  if speedtest_toggle:
\* variant: the launch is made on every key press, whatever the new level
SpeedTest_EveryPress ==
    /\ npc = "l50"
    /\ npc' = "l51"
    /\ UNCHANGED <<samplerVars, rankVars, flagVars, probeVars, presses, fpc, ftmp, ntmp, lastStart, starts, workerVars, mainVars>>

SpeedTest ==
    /\ npc = "l50"
    /\ npc' = IF speedtest_toggle THEN "l51" ELSE "wait"
    /\ UNCHANGED <<samplerVars, rankVars, flagVars, probeVars, presses, fpc, ftmp, ntmp, lastStart, starts, workerVars, mainVars>>

\* a slot whose thread never started or has ended can hold a new thread
FreeSlots == {w \in Workers : wpc[w] \in {"none", "done", "dead"}}
Alive(w) == wpc[w] \notin {"none", "done", "dead"}

\* mutation: the "if speedtest_running: return" guard is missing
run_speedtest_background_NoGuard ==
    /\ npc = "l51"
    /\ FreeSlots # {}
    /\ LET w == CHOOSE x \in FreeSlots : \A y \in FreeSlots : x <= y
       IN /\ wpc' = [wpc EXCEPT ![w] = "l284"]
          /\ nread' = [nread EXCEPT ![w] = 0]
    /\ lastStart' = IF speedtest_running THEN "noop" ELSE "spawned"
    /\ starts' = [calls |-> starts.calls + 1, spawned |-> starts.spawned + 1]
    /\ npc' = "wait"
    /\ UNCHANGED <<samplerVars, rankVars, flagVars, probeVars, presses, fpc, ftmp, ntmp, mainVars>>

\* main.py:277-280, 335-336  run_speedtest_background as called at line 51:
\* return at once if speedtest_running, else create and start the thread
run_speedtest_background ==
    /\ npc = "l51"
    /\ IF speedtest_running
       THEN /\ lastStart' = "noop"
            /\ starts' = [starts EXCEPT !.calls = @ + 1]
            /\ UNCHANGED workerVars
       ELSE /\ FreeSlots # {}
            /\ LET w == CHOOSE x \in FreeSlots : \A y \in FreeSlots : x <= y
               IN /\ wpc' = [wpc EXCEPT ![w] = "l284"]
                  /\ nread' = [nread EXCEPT ![w] = 0]
            /\ lastStart' = "spawned"
            /\ starts' = [calls |-> starts.calls + 1, spawned |-> starts.spawned + 1]
    /\ npc' = "wait"
    /\ UNCHANGED <<samplerVars, rankVars, flagVars, probeVars, presses, fpc, ftmp, ntmp, mainVars>>

\* ------------------------------------------------------------- _worker
\* environment of one run: the text of the next stdout line, and the network
\* rates seen at line i, drawn from the set rates.  synth selects the
\* synthetic stream of the long single-run specification instead: every line
\* has text and the i-th sample is i.
LineTexts(synth) == IF synth THEN {"L"} ELSE {"", "L"}
DownRates(synth, rates, i) == IF synth THEN {i} ELSE rates
UpRates(synth, rates, i) == IF synth THEN {0} ELSE rates

\* main.py:284  speedtest_running = True
W_l284(w) ==
    /\ wpc[w] = "l284"
    /\ speedtest_running' = TRUE
    /\ wpc' = [wpc EXCEPT ![w] = "l285"]
    /\ UNCHANGED <<samplerVars, rankVars, flagVars, speedtest_result_text, speedtest_error, speed_samples,
                   speed_samples_lock, appended, listenVars, nread, mainVars>>

\* main.py:285  speedtest_result_text = ""
W_l285(w) ==
    /\ wpc[w] = "l285"
    /\ speedtest_result_text' = <<>>
    /\ wpc' = [wpc EXCEPT ![w] = "l286"]
    /\ UNCHANGED <<samplerVars, rankVars, flagVars, speedtest_running, speedtest_error, speed_samples,
                   speed_samples_lock, appended, listenVars, nread, mainVars>>

\* main.py:286  speedtest_error = None
W_l286(w) ==
    /\ wpc[w] = "l286"
    /\ speedtest_error' = "None"
    /\ wpc' = [wpc EXCEPT ![w] = "l287"]
    /\ UNCHANGED <<samplerVars, rankVars, flagVars, speedtest_running, speedtest_result_text, speed_samples,
                   speed_samples_lock, appended, listenVars, nread, mainVars>>

\* main.py:287  with speed_samples_lock: (acquire)
W_l287(w) ==
    /\ wpc[w] = "l287"
    /\ speed_samples_lock = 0
    /\ speed_samples_lock' = w
    /\ wpc' = [wpc EXCEPT ![w] = "l288"]
    /\ UNCHANGED <<samplerVars, rankVars, flagVars, speedtest_running, speedtest_result_text, speedtest_error,
                   speed_samples, appended, listenVars, nread, mainVars>>

\* main.py:288  speed_samples = []  (and release)
W_l288(w) ==
    /\ wpc[w] = "l288"
    /\ speed_samples' = <<>>
    /\ appended' = <<>>
    /\ speed_samples_lock' = 0
    /\ wpc' = [wpc EXCEPT ![w] = "l291"]
    /\ UNCHANGED <<samplerVars, rankVars, flagVars, speedtest_running, speedtest_result_text, speedtest_error,
                   listenVars, nread, mainVars>>

\* main.py:290-305  subprocess.Popen: started, FileNotFoundError, or any
\* other exception
W_l291(w) ==
    /\ wpc[w] = "l291"
    /\ \E outcome \in {"l311", "l299", "l303"} : wpc' = [wpc EXCEPT ![w] = outcome]
    /\ UNCHANGED <<samplerVars, rankVars, flagVars, probeVars, listenVars, nread, mainVars>>

\* main.py:299 / 303  speedtest_error = <message>
W_l299(w) ==
    /\ wpc[w] \in {"l299", "l303"}
    /\ speedtest_error' = IF wpc[w] = "l299" THEN "speedtest-cli not found."
                          ELSE "Failed to start speedtest-cli"
    /\ wpc' = [wpc EXCEPT ![w] = "l300"]
    /\ UNCHANGED <<samplerVars, rankVars, flagVars, speedtest_running, speedtest_result_text, speed_samples,
                   speed_samples_lock, appended, listenVars, nread, mainVars>>

\* main.py:300-301 / 304-305  speedtest_running = False; return
W_l300(w) ==
    /\ wpc[w] = "l300"
    /\ speedtest_running' = FALSE
    /\ wpc' = [wpc EXCEPT ![w] = "done"]
    /\ UNCHANGED <<samplerVars, rankVars, flagVars, speedtest_result_text, speedtest_error, speed_samples,
                   speed_samples_lock, appended, listenVars, nread, mainVars>>

\* main.py:311-313  for line in proc.stdout: a line with or without text
\* after strip(), end of output, or an exception (caught at line 329)
W_l311(w, maxLines, synth) ==
    /\ wpc[w] = "l311"
    /\ \/ /\ nread[w] < maxLines
          /\ nread' = [nread EXCEPT ![w] = @ + 1]
          /\ \E line \in LineTexts(synth) :
                wpc' = [wpc EXCEPT ![w] = IF line # "" THEN "l314" ELSE "l323"]
       \/ /\ wpc' = [wpc EXCEPT ![w] = "l332"]
          /\ UNCHANGED nread
       \/ /\ wpc' = [wpc EXCEPT ![w] = "l330"]
          /\ UNCHANGED nread
    /\ UNCHANGED <<samplerVars, rankVars, flagVars, probeVars, listenVars, mainVars>>

\* main.py:314  with speed_samples_lock: (acquire)
W_l314(w) ==
    /\ wpc[w] = "l314"
    /\ speed_samples_lock = 0
    /\ speed_samples_lock' = w
    /\ wpc' = [wpc EXCEPT ![w] = "l315"]
    /\ UNCHANGED <<samplerVars, rankVars, flagVars, speedtest_running, speedtest_result_text, speedtest_error,
                   speed_samples, appended, listenVars, nread, mainVars>>

\* variant: the text is appended and the lock is kept
W_l315_KeepsLock(w) ==
    /\ wpc[w] = "l315"
    /\ speedtest_result_text' = Append(speedtest_result_text, "L")
    /\ wpc' = [wpc EXCEPT ![w] = "l323"]
    /\ UNCHANGED <<samplerVars, rankVars, flagVars, speedtest_running, speedtest_error, speed_samples, appended,
                   speed_samples_lock, listenVars, nread, mainVars>>

\* main.py:315  speedtest_result_text += line + "\n"  (and release)
W_l315(w) ==
    /\ wpc[w] = "l315"
    /\ speedtest_result_text' = Append(speedtest_result_text, "L")
    /\ speed_samples_lock' = 0
    /\ wpc' = [wpc EXCEPT ![w] = "l323"]
    /\ UNCHANGED <<samplerVars, rankVars, flagVars, speedtest_running, speedtest_error, speed_samples, appended,
                   listenVars, nread, mainVars>>

\* main.py:317-323  the sample is computed, then the lock is acquired
W_l323(w) ==
    /\ wpc[w] = "l323"
    /\ speed_samples_lock = 0
    /\ speed_samples_lock' = w
    /\ wpc' = [wpc EXCEPT ![w] = "l324"]
    /\ UNCHANGED <<samplerVars, rankVars, flagVars, speedtest_running, speedtest_result_text, speedtest_error,
                   speed_samples, appended, listenVars, nread, mainVars>>

\* main.py:324  speed_samples.append(sample_mbps)
W_l324(w, synth, rates) ==
    /\ wpc[w] = "l324"
    /\ \E down \in DownRates(synth, rates, nread[w]), up \in UpRates(synth, rates, nread[w]) :
          /\ speed_samples' = Append(speed_samples, SampleMbps(down, up))
          /\ appended' = Append(appended, SampleMbps(down, up))
    /\ wpc' = [wpc EXCEPT ![w] = "l325"]
    /\ UNCHANGED <<samplerVars, rankVars, flagVars, speedtest_running, speedtest_result_text, speedtest_error,
                   speed_samples_lock, listenVars, nread, mainVars>>

\* mutation: the length test is off by one (> 201 instead of > 200)
W_l325_OffByOne(w) ==
    /\ wpc[w] = "l325"
    /\ speed_samples' = IF Len(speed_samples) > SampleCap + 1
                        THEN LastN(speed_samples, SampleCap)
                        ELSE speed_samples
    /\ speed_samples_lock' = 0
    /\ wpc' = [wpc EXCEPT ![w] = "l311"]
    /\ UNCHANGED <<samplerVars, rankVars, flagVars, speedtest_running, speedtest_result_text, speedtest_error,
                   appended, listenVars, nread, mainVars>>

\* mutation: the slice keeps the first 200 (speed_samples[:200])
W_l325_KeepsOldest(w) ==
    /\ wpc[w] = "l325"
    /\ speed_samples' = IF Len(speed_samples) > SampleCap
                        THEN SubSeq(speed_samples, 1, SampleCap)
                        ELSE speed_samples
    /\ speed_samples_lock' = 0
    /\ wpc' = [wpc EXCEPT ![w] = "l311"]
    /\ UNCHANGED <<samplerVars, rankVars, flagVars, speedtest_running, speedtest_result_text, speedtest_error,
                   appended, listenVars, nread, mainVars>>

\* main.py:325-328  trim to the last 200 if longer (and release)
W_l325(w) ==
    /\ wpc[w] = "l325"
    /\ speed_samples' = IF Len(speed_samples) > SampleCap
                        THEN LastN(speed_samples, SampleCap)
                        ELSE speed_samples
    /\ speed_samples_lock' = 0
    /\ wpc' = [wpc EXCEPT ![w] = "l311"]
    /\ UNCHANGED <<samplerVars, rankVars, flagVars, speedtest_running, speedtest_result_text, speedtest_error,
                   appended, listenVars, nread, mainVars>>

\* main.py:329-330  except Exception as e: speedtest_error = ...
W_l330(w) ==
    /\ wpc[w] = "l330"
    /\ speedtest_error' = "Speedtest error"
    /\ wpc' = [wpc EXCEPT ![w] = "l332"]
    /\ UNCHANGED <<samplerVars, rankVars, flagVars, speedtest_running, speedtest_result_text, speed_samples,
                   speed_samples_lock, appended, listenVars, nread, mainVars>>

\* main.py:332  proc.wait(timeout=10): returns, or raises TimeoutExpired,
\* which nothing catches: the thread ends there
W_l332(w) ==
    /\ wpc[w] = "l332"
    /\ \E outcome \in {"l333", "dead"} : wpc' = [wpc EXCEPT ![w] = outcome]
    /\ UNCHANGED <<samplerVars, rankVars, flagVars, probeVars, listenVars, nread, mainVars>>

\* main.py:333  speedtest_running = False
W_l333(w) ==
    /\ wpc[w] = "l333"
    /\ speedtest_running' = FALSE
    /\ wpc' = [wpc EXCEPT ![w] = "done"]
    /\ UNCHANGED <<samplerVars, rankVars, flagVars, speedtest_result_text, speedtest_error, speed_samples,
                   speed_samples_lock, appended, listenVars, nread, mainVars>>

\* main.py:282-333  one step of worker thread w
Worker(w, maxLines, synth, rates) ==
    \/ W_l284(w) \/ W_l285(w) \/ W_l286(w) \/ W_l287(w) \/ W_l288(w)
    \/ W_l291(w) \/ W_l299(w) \/ W_l300(w)
    \/ W_l311(w, maxLines, synth) \/ W_l314(w) \/ W_l315(w)
    \/ W_l323(w) \/ W_l324(w, synth, rates) \/ W_l325(w)
    \/ W_l330(w) \/ W_l332(w) \/ W_l333(w)

\* one step of worker thread w when speedtest-cli prints nothing: the loop of
\* line 311 ends at once (end of output or exception)
WorkerNoOutput(w) ==
    \/ W_l284(w) \/ W_l285(w) \/ W_l286(w) \/ W_l287(w) \/ W_l288(w)
    \/ W_l291(w) \/ W_l299(w) \/ W_l300(w)
    \/ W_l311(w, 0, FALSE)
    \/ W_l330(w) \/ W_l332(w) \/ W_l333(w)

\* ----------------------------------------------------------- main loop
\* main.py:354-355  stats = get_system_stats()  (lines 86-98: the previous
\* time stamp is overwritten with the current one);
\* top_procs = get_top_processes()
M_l354(lists) ==
    /\ mpc = "l354"
    /\ prev_time' = tick
    /\ stats' = tick
    /\ \E procs \in lists : top_procs' = procs
    /\ mpc' = "l357"
    /\ UNCHANGED <<samplerVars, rankVars, flagVars, probeVars, listenVars, workerVars, tick, prompts, interrupts, layout, live,
                   choice, term_call, console>>

\* mutation: the freeze flag is not consulted, every tick renders
M_l357_AlwaysRenders ==
    /\ mpc = "l357"
    /\ mpc' = "l235"
    /\ UNCHANGED <<samplerVars, rankVars, flagVars, probeVars, listenVars, workerVars, prev_time, tick, prompts, interrupts, stats,
                   top_procs, layout, live, choice, term_call, console>>

\* mutation: the freeze flag is consumed like the kill flag (cleared once read)
M_l357_ClearsFreeze ==
    /\ mpc = "l357"
    /\ mpc' = IF ~freeze_requested THEN "l235" ELSE "l360"
    /\ freeze_requested' = FALSE
    /\ UNCHANGED <<samplerVars, rankVars, kill_requested, speedtest_toggle, probeVars, listenVars, workerVars,
                   prev_time, tick, prompts, interrupts, stats, top_procs, layout, live, choice, term_call, console>>

\* main.py:357  if not freeze_requested:
M_l357 ==
    /\ mpc = "l357"
    /\ mpc' = IF ~freeze_requested THEN "l235" ELSE "l360"
    /\ UNCHANGED <<samplerVars, rankVars, flagVars, probeVars, listenVars, workerVars, prev_time, tick, prompts, interrupts, stats,
                   top_procs, layout, live, choice, term_call, console>>

\* main.py:226-240  render_layout: header, bars, network, processes and disk
\* regions are updated from stats and top_procs; if speedtest_toggle: ...
M_l235 ==
    /\ mpc = "l235"
    /\ layout' = [stats |-> stats, procs |-> top_procs, network |-> <<"net">>]
    /\ mpc' = IF speedtest_toggle THEN "l219" ELSE "l360"
    /\ UNCHANGED <<samplerVars, rankVars, flagVars, probeVars, listenVars, workerVars, prev_time, tick, prompts, interrupts, stats,
                   top_procs, live, choice, term_call, console>>

\* main.py:219  build_speedtest_panel: with speed_samples_lock: (acquire)
M_l219 ==
    /\ mpc = "l219"
    /\ speed_samples_lock = 0
    /\ speed_samples_lock' = MainHolder
    /\ mpc' = "l220"
    /\ UNCHANGED <<samplerVars, rankVars, flagVars, speedtest_running, speedtest_result_text, speedtest_error,
                   speed_samples, appended, listenVars, workerVars, prev_time, tick, prompts, interrupts, stats,
                   top_procs, layout, live, choice, term_call, console>>

\* main.py:220-224, 241  graph, text and error are read, the lock is
\* released, and the network region is replaced by the panel
M_l220 ==
    /\ mpc = "l220"
    /\ layout' = [layout EXCEPT !.network =
                     <<"speed", GraphLine(speed_samples),
                       PanelText(speedtest_result_text, speedtest_running),
                       speedtest_error>>]
    /\ speed_samples_lock' = 0
    /\ mpc' = "l360"
    /\ UNCHANGED <<samplerVars, rankVars, flagVars, speedtest_running, speedtest_result_text, speedtest_error,
                   speed_samples, appended, listenVars, workerVars, prev_time, tick, prompts, interrupts, stats,
                   top_procs, live, choice, term_call, console>>

\* main.py:360  if kill_requested:
M_l360 ==
    /\ mpc = "l360"
    /\ mpc' = IF kill_requested THEN "l361" ELSE "l364"
    /\ UNCHANGED <<samplerVars, rankVars, flagVars, probeVars, listenVars, workerVars, prev_time, tick, prompts, interrupts, stats,
                   top_procs, layout, live, choice, term_call, console>>

\* variant: the prompt is entered with the kill flag left set
M_l361_KeepsFlag ==
    /\ mpc = "l361"
    /\ mpc' = "l256"
    /\ UNCHANGED <<samplerVars, rankVars, flagVars, probeVars, listenVars, workerVars,
                   prev_time, tick, prompts, interrupts, stats, top_procs, layout, live, choice, term_call, console>>

\* main.py:361  kill_requested = False
M_l361 ==
    /\ mpc = "l361"
    /\ kill_requested' = FALSE
    /\ mpc' = "l256"
    /\ UNCHANGED <<samplerVars, rankVars, freeze_requested, speedtest_toggle, probeVars, listenVars, workerVars,
                   prev_time, tick, prompts, interrupts, stats, top_procs, layout, live, choice, term_call, console>>

\* main.py:256-260  kill_process_prompt: live.stop(), console.clear(), the
\* processes are listed
M_l256 ==
    /\ mpc = "l256"
    /\ live' = "stopped"
    /\ console' = <<>>
    /\ prompts' = prompts + 1
    /\ mpc' = "l263"
    /\ UNCHANGED <<samplerVars, rankVars, flagVars, probeVars, listenVars, workerVars, prev_time, tick, interrupts, stats,
                   top_procs, layout, choice, term_call>>

\* main.py:244-253  kill_proc_tree(pid): what it prints; every exception is
\* caught inside
KillProcTree(ok) == IF ok THEN <<>> ELSE <<"Error killing process">>

\* main.py:261-271  the input is read and handled
M_l263 ==
    /\ mpc = "l263"
    /\ \E inp \in Inputs, ok \in BOOLEAN :
          /\ choice' = inp
          /\ IF ~inp.isInt
             THEN \* int() raises ValueError
                  /\ term_call' = 0
                  /\ console' = <<"Invalid selection">>
             ELSE IF inp.n = 0
             THEN /\ term_call' = 0
                  /\ console' = <<"Canceled.">>
             ELSE IF PyIndexOK(top_procs, inp.n - 1)
             THEN /\ term_call' = PyIndex(top_procs, inp.n - 1)
                  /\ console' = KillProcTree(ok) \o <<"Killed">>
             ELSE \* top_procs[choice - 1] raises IndexError
                  /\ term_call' = 0
                  /\ console' = <<"Invalid selection">>
    /\ mpc' = "l273"
    /\ UNCHANGED <<samplerVars, rankVars, flagVars, probeVars, listenVars, workerVars, prev_time, tick, prompts, interrupts, stats,
                   top_procs, layout, live>>

\* mutation: the kill flag is cleared when the prompt closes, not before it opens
M_l273_ClearsKill ==
    /\ mpc = "l273"
    /\ live' = "started"
    /\ choice' = NoInput
    /\ term_call' = 0
    /\ console' = <<>>
    /\ kill_requested' = FALSE
    /\ mpc' = "l364"
    /\ UNCHANGED <<samplerVars, rankVars, freeze_requested, speedtest_toggle, probeVars, listenVars, workerVars,
                   prev_time, tick, prompts, interrupts, stats, top_procs, layout>>

\* variant: the prompt returns without live.start()
M_l273_NoRestart ==
    /\ mpc = "l273"
    /\ choice' = NoInput
    /\ term_call' = 0
    /\ console' = <<>>
    /\ mpc' = "l364"
    /\ UNCHANGED <<samplerVars, rankVars, flagVars, probeVars, listenVars, workerVars, prev_time, tick, prompts, interrupts, stats,
                   top_procs, layout, live>>

\* main.py:272-274  finally: time.sleep(1); live.start()
M_l273 ==
    /\ mpc = "l273"
    /\ live' = "started"
    /\ choice' = NoInput
    /\ term_call' = 0
    /\ console' = <<>>
    /\ mpc' = "l364"
    /\ UNCHANGED <<samplerVars, rankVars, flagVars, probeVars, listenVars, workerVars, prev_time, tick, prompts, interrupts, stats,
                   top_procs, layout>>

\* main.py:364, 353  time.sleep(0.2); next iteration
M_l364 ==
    /\ mpc = "l364"
    /\ tick' = (tick + 1) % TickMod
    /\ mpc' = "l354"
    /\ UNCHANGED <<samplerVars, rankVars, flagVars, probeVars, listenVars, workerVars, prev_time, prompts, interrupts, stats,
                   top_procs, layout, live, choice, term_call, console>>

\* main.py:353-364  one step of the main thread: the tick itself, the
\* speedtest panel inside render_layout, and the kill prompt
\* main.py:270, 353-367  a KeyboardInterrupt is raised in the main thread.
\* Inside the try of kill_process_prompt (lines 261-269, waiting at the
\* input) the bare except of line 270 catches it, prints the message of
\* line 271 and the finally block follows.  Everywhere else in the loop it
\* unwinds (a held lock is released by its with block) to the handler of
\* line 366, which prints the exit message; Live has stopped by then.
M_Interrupt ==
    /\ mpc # "exit"
    /\ interrupts < MaxInterrupts
    /\ interrupts' = interrupts + 1
    /\ IF mpc = "l263"
       THEN /\ console' = <<"Invalid selection">>
            /\ mpc' = "l273"
            /\ UNCHANGED <<speed_samples_lock, live>>
       ELSE /\ console' = <<"Exiting Sour CLI Sys Monitor...">>
            /\ mpc' = "exit"
            /\ live' = "stopped"
            /\ speed_samples_lock' = IF speed_samples_lock = MainHolder THEN 0 ELSE speed_samples_lock
    /\ UNCHANGED <<samplerVars, rankVars, flagVars, speedtest_running, speedtest_result_text, speedtest_error,
                   speed_samples, appended, listenVars, workerVars, prev_time, tick, prompts, stats,
                   top_procs, layout, choice, term_call>>

MainTick(lists) == M_l354(lists) \/ M_l357 \/ M_l235 \/ M_l360 \/ M_l364
MainPanel == M_l219 \/ M_l220
MainPrompt == M_l361 \/ M_l256 \/ M_l263 \/ M_l273
Main(lists) == MainTick(lists) \/ MainPanel \/ MainPrompt

\* ------------------------------------------------- get_system_stats alone
\* a rate is the quotient delta / dt, kept as the pair <<delta, dt>>, dt > 0
RateZero == <<0, 1>>
Rate(delta, dt) == <<delta, dt>>
IsZeroRate(r) == r[1] = 0
NonNegRate(r) == r[1] >= 0 /\ r[2] > 0

\* environment: time.time() is the wall clock; it can stand still or be set back
ClockStep ==
    /\ spc # "idle"
    /\ \E t \in 1..MaxClock : t # clock /\ clock' = t
    /\ UNCHANGED <<rankVars, flagVars, probeVars, listenVars, workerVars, mainVars,
                   net, prev_net, net_rates, spc, ncalls>>

\* environment: the byte counters of psutil.net_io_counters() (nowrap) grow
NetStep ==
    /\ spc # "idle"
    /\ \E s \in net[1]..MaxBytes, r \in net[2]..MaxBytes :
          /\ <<s, r>> # net
          /\ net' = <<s, r>>
    /\ UNCHANGED <<rankVars, flagVars, probeVars, listenVars, workerVars,
                   prev_time, mpc, tick, stats, top_procs, layout, live, choice, term_call,
                   console, prompts, interrupts,
                   clock, prev_net, net_rates, spc, ncalls>>

\* main.py:342-343  main seeds the previous sample before the loop
S_l342 ==
    /\ spc = "l342"
    /\ prev_net' = net
    /\ prev_time' = clock
    /\ spc' = "l354"
    /\ UNCHANGED <<rankVars, flagVars, probeVars, listenVars, workerVars,
                   mpc, tick, stats, top_procs, layout, live, choice, term_call,
                   console, prompts, interrupts,
                   clock, net, net_rates, ncalls>>

\* variant: the rates are computed for every dt other than 0
get_system_stats_NoClamp ==
    /\ spc = "l354"
    /\ ncalls < MaxCalls
    /\ LET now == clock
           dt == now - prev_time
       IN  /\ net_rates' = IF prev_net # <<>> /\ prev_time # 0
                           THEN IF dt # 0
                                THEN <<Rate(net[1] - prev_net[1], dt), Rate(net[2] - prev_net[2], dt)>>
                                ELSE <<RateZero, RateZero>>
                           ELSE <<RateZero, RateZero>>
           /\ prev_net' = net
           /\ prev_time' = now
    /\ ncalls' = ncalls + 1
    /\ UNCHANGED <<rankVars, flagVars, probeVars, listenVars, workerVars,
                   mpc, tick, stats, top_procs, layout, live, choice, term_call,
                   console, prompts, interrupts,
                   clock, net, spc>>

\* main.py:80, 86-98  one call: the rates from the previous sample, which is
\* then overwritten.  prev_net is a namedtuple (true unless None); prev_time
\* is a float (true unless None or 0.0).
get_system_stats ==
    /\ spc = "l354"
    /\ ncalls < MaxCalls
    /\ LET now == clock
           dt == now - prev_time
       IN  /\ net_rates' = IF prev_net # <<>> /\ prev_time # 0
                           THEN IF dt > 0
                                THEN <<Rate(net[1] - prev_net[1], dt), Rate(net[2] - prev_net[2], dt)>>
                                ELSE <<RateZero, RateZero>>
                           ELSE <<RateZero, RateZero>>
           /\ prev_net' = net
           /\ prev_time' = now
    /\ ncalls' = ncalls + 1
    /\ UNCHANGED <<rankVars, flagVars, probeVars, listenVars, workerVars,
                   mpc, tick, stats, top_procs, layout, live, choice, term_call,
                   console, prompts, interrupts,
                   clock, net, spc>>

\* ------------------------------------------------ get_top_processes alone
\* the lists process_iter can enumerate: the pid is the place in the
\* enumeration, cpu_percent a number
RankInputs ==
    UNION {{[i \in 1..n |-> [pid |-> i, cpu_percent |-> f[i]]] : f \in [1..n -> 0..MaxCpu]}
           : n \in 0..MaxRank}

\* sorted(procs, key=cpu_percent, reverse=True) is stable: elements with
\* equal keys keep their order.  Computed by inserting the elements, first
\* to last, each behind every element whose key is not smaller.
RECURSIVE InsertDesc(_, _)
InsertDesc(x, s) ==
    IF s = <<>> THEN <<x>>
    ELSE IF Head(s).cpu_percent >= x.cpu_percent
         THEN <<Head(s)>> \o InsertDesc(x, Tail(s))
         ELSE <<x>> \o s

\* variant: an element is put in front of the elements with an equal key
RECURSIVE InsertDescFront(_, _)
InsertDescFront(x, s) ==
    IF s = <<>> THEN <<x>>
    ELSE IF Head(s).cpu_percent > x.cpu_percent
         THEN <<Head(s)>> \o InsertDescFront(x, Tail(s))
         ELSE <<x>> \o s

RECURSIVE SortedDesc(_)
SortedDesc(s) ==
    IF s = <<>> THEN <<>>
    ELSE InsertDesc(s[Len(s)], SortedDesc(SubSeq(s, 1, Len(s) - 1)))

RECURSIVE SortedDescTiesReversed(_)
SortedDescTiesReversed(s) ==
    IF s = <<>> THEN <<>>
    ELSE InsertDescFront(s[Len(s)], SortedDescTiesReversed(SubSeq(s, 1, Len(s) - 1)))

\* s[:n]
SliceTo(s, n) ==
    IF n >= 0 THEN SubSeq(s, 1, Min(n, Len(s)))
    ELSE SubSeq(s, 1, Max(0, Len(s) + n))

\* variant: ties come out in reverse enumeration order
TopProcsTiesReversed(procs, limit) == SliceTo(SortedDescTiesReversed(procs), limit)

\* main.py:117-118  the sort and the slice
TopProcs(procs, limit) == SliceTo(SortedDesc(procs), limit)

\* main.py:110-118  one call
get_top_processes ==
    /\ rank_out = NoRank
    /\ rank_out' = TopProcs(rank_procs, rank_limit)
    /\ UNCHANGED <<samplerVars, flagVars, probeVars, listenVars, workerVars, mainVars,
                   rank_procs, rank_limit>>

\* --------------------------------------------------------- specifications
\* all threads interleaved; MaxPresses key presses in all
Next ==
    \/ (TotalPresses < MaxPresses /\ listen_for_kill(MaxPresses))
    \/ (TotalPresses < MaxPresses /\ FreezeKey(MaxPresses))
    \/ FreezeStore
    \/ (TotalPresses < MaxPresses /\ SpeedKey(MaxPresses))
    \/ SpeedStore \/ SpeedTest
    \/ run_speedtest_background
    \/ \E w \in Workers : Worker(w, MaxLinesFlags, FALSE, {0, 1})
    \/ Main(ProcLists)

Spec == Init /\ [][Next]_vars

\* the speedtest listener and the worker threads it starts
NextSpeed ==
    \/ SpeedKey(MaxPressN) \/ SpeedStore \/ SpeedTest
    \/ run_speedtest_background
    \/ \E w \in Workers : Worker(w, MaxLines, FALSE, {1})

SpecSpeed == Init /\ [][NextSpeed]_vars

\* the speedtest listener and its worker: one long run over the synthetic
\* output stream
NextProbe ==
    \/ SpeedKey(MaxPressNProbe) \/ SpeedStore \/ SpeedTest
    \/ run_speedtest_background
    \/ \E w \in Workers : Worker(w, MaxLinesProbe, TRUE, {})

SpecProbe == Init /\ [][NextProbe]_vars

\* the main loop with the kill and freeze listeners ('n' is never pressed)
NextLoop ==
    \/ listen_for_kill(MaxPressK)
    \/ FreezeKey(MaxPressF) \/ FreezeStore
    \/ MainTick(ProcLists) \/ MainPrompt

SpecLoop == Init /\ [][NextLoop]_vars

\* the main loop keeps running and the user answers the kill prompt
FairLoop == SpecLoop /\ WF_vars(MainTick(ProcLists) \/ MainPrompt)

\* the main loop rendering (with the speedtest panel), the freeze and
\* speedtest listeners and the worker ('k' is never pressed)
NextFlags ==
    \/ FreezeKey(MaxPressF) \/ FreezeStore
    \/ SpeedKey(MaxPressNFlags) \/ SpeedStore \/ SpeedTest
    \/ run_speedtest_background
    \/ \E w \in Workers : Worker(w, MaxLinesFlags, FALSE, {0, 1})
    \/ MainTick({SubSeq(AllPids, 1, 1)}) \/ MainPanel

SpecFlags == Init /\ [][NextFlags]_vars

\* both toggle listeners, the main loop reading their flags, and workers
\* whose speedtest-cli prints nothing ('k' is never pressed)
NextToggle ==
    \/ FreezeKey(MaxPressF) \/ FreezeStore
    \/ SpeedKey(MaxPressN) \/ SpeedStore \/ SpeedTest
    \/ run_speedtest_background
    \/ \E w \in Workers : WorkerNoOutput(w)
    \/ MainTick({SubSeq(AllPids, 1, 1)}) \/ MainPanel

SpecToggle == Init /\ [][NextToggle]_vars

\* the main loop with the kill and freeze listeners, and KeyboardInterrupts;
\* the listeners are daemon threads and end with the main thread
NextInterrupt ==
    \/ (mpc # "exit" /\ listen_for_kill(MaxPressK))
    \/ (mpc # "exit" /\ FreezeKey(MaxPressF))
    \/ (mpc # "exit" /\ FreezeStore)
    \/ MainTick(ProcLists) \/ MainPrompt
    \/ M_Interrupt

SpecInterrupt == Init /\ [][NextInterrupt]_vars

\* get_system_stats as main calls it: the seed of lines 342-343, then one
\* call per tick, with the clock and the byte counters moving in between
InitStats ==
    /\ InitProgram /\ RankIdle
    /\ prev_time = 0 /\ prev_net = <<>>
    /\ clock \in 1..MaxClock /\ net = <<0, 0>>
    /\ net_rates = <<RateZero, RateZero>> /\ spc = "l342" /\ ncalls = 0

NextStats == ClockStep \/ NetStep \/ S_l342 \/ get_system_stats

SpecStats == InitStats /\ [][NextStats]_vars

\* get_system_stats called with the globals as the module leaves them
\* (prev_net = prev_time = None, lines 21-22)
InitSample ==
    /\ InitProgram /\ RankIdle
    /\ prev_time = 0 /\ prev_net = <<>>
    /\ clock \in 1..MaxClock /\ net = <<0, 0>>
    /\ net_rates = <<RateZero, RateZero>> /\ spc = "l354" /\ ncalls = 0

NextSample == ClockStep \/ NetStep \/ get_system_stats

SpecSample == InitSample /\ [][NextSample]_vars

\* get_top_processes on every enumerated list and every limit
InitRank ==
    /\ InitProgram /\ prev_time = -1 /\ SamplerIdle
    /\ rank_procs \in RankInputs
    /\ rank_limit \in 0..MaxLimit
    /\ rank_out = NoRank

NextRank == get_top_processes

SpecRank == InitRank /\ [][NextRank]_vars

\* the state after one complete run (one line with text, one sample of
\* 1 Mbit/s) and a second 'n' press that switched the panel off again
InitAfterRun ==
    /\ kill_requested = FALSE
    /\ freeze_requested = FALSE
    /\ speedtest_toggle = FALSE
    /\ speedtest_running = FALSE
    /\ speedtest_result_text = <<"L">>
    /\ speedtest_error = "None"
    /\ speed_samples = <<1>>
    /\ speed_samples_lock = 0
    /\ presses = [key \in {"k", "f", "n"} |-> IF key = "n" THEN 2 ELSE 0]
    /\ fpc = "wait" /\ ftmp = FALSE
    /\ npc = "wait" /\ ntmp = FALSE
    /\ lastStart = "spawned"
    /\ starts = [calls |-> 1, spawned |-> 1]
    /\ wpc = [w \in Workers |-> IF w = 1 THEN "done" ELSE "none"]
    /\ nread = [w \in Workers |-> IF w = 1 THEN 1 ELSE 0]
    /\ appended = <<1>>
    /\ mpc = "l354"
    /\ tick = 0
    /\ stats = -1
    /\ top_procs = <<>>
    /\ layout = NoLayout
    /\ live = "started"
    /\ choice = NoInput
    /\ term_call = 0
    /\ console = <<>>
    /\ prompts = 0
    /\ interrupts = 0
    /\ prev_time = -1 /\ SamplerIdle /\ RankIdle

\* a later run: the speedtest listener, the workers and the main loop
\* rendering the panel ('k' and 'f' are never pressed)
NextSecondRun ==
    \/ SpeedKey(MaxPressNSecond) \/ SpeedStore \/ SpeedTest
    \/ run_speedtest_background
    \/ \E w \in Workers : Worker(w, MaxLinesFlags, FALSE, {1})
    \/ MainTick({SubSeq(AllPids, 1, 1)}) \/ MainPanel

SpecSecondRun == InitAfterRun /\ [][NextSecondRun]_vars

\* the users of speed_samples_lock: the workers of a run and the main loop
\* rendering the panel ('k' and 'f' are never pressed)
NextLock ==
    \/ SpeedKey(MaxPressNFlags) \/ SpeedStore \/ SpeedTest
    \/ run_speedtest_background
    \/ \E w \in Workers : Worker(w, MaxLinesFlags, FALSE, {1})
    \/ MainTick({SubSeq(AllPids, 1, 1)}) \/ MainPanel

SpecLock == Init /\ [][NextLock]_vars

\* every thread keeps being scheduled, and a thread blocked in acquire gets
\* the lock when it is free again and again (the other user then sleeps or
\* reads a pipe before it asks for the lock again)
FairLock ==
    /\ SpecLock
    /\ SF_vars(MainTick({SubSeq(AllPids, 1, 1)}) \/ MainPanel)
    /\ \A w \in Workers : SF_vars(Worker(w, MaxLinesFlags, FALSE, {1}))

\* ------------------------------------------------------------------ claims
Odd(n) == n % 2 = 1
AliveWorkers == {w \in Workers : Alive(w)}

\* C1: at most one _worker thread is alive (started and not yet returned) at
\* a time, whatever the interleaving of 'n' key presses and worker steps.
C1_AtMostOneWorker == Cardinality(AliveWorkers) <= 1

\* C2: a call of run_speedtest_background made while speedtest_running is
\* true spawns no thread and leaves running, the result text, the error and
\* the samples as they were.
C2_StartNoopWhileRunning ==
    [][(npc = "l51" /\ npc' # "l51" /\ speedtest_running)
         => UNCHANGED <<wpc, nread, speedtest_running, speedtest_result_text,
                        speedtest_error, speed_samples, appended, speed_samples_lock>>]_vars

\* a call has been made while a run was in progress and has returned
C2_Witness == lastStart = "noop" /\ speedtest_running /\ npc = "wait"

\* C3: every started run ends with speedtest_running false, whichever way it
\* ends; stated on finished runs: once every started worker thread has ended,
\* speedtest_running is false.
C3_EndedRunNotRunning ==
    (AliveWorkers = {} /\ \E w \in Workers : wpc[w] \in {"done", "dead"})
        => ~speedtest_running

\* C4: whenever speed_samples_lock is not held by a worker, speed_samples
\* holds at most 200 samples.
C4_SamplesBounded == speed_samples_lock \notin Workers => Len(speed_samples) <= SampleCap

\* the cap is reached after samples have been evicted
C4_Witness ==
    /\ speed_samples_lock = 0
    /\ Len(speed_samples) = SampleCap
    /\ Len(appended) > SampleCap + 1

\* C5: eviction is first-in first-out: between appends of one run,
\* speed_samples is the last min(n, 200) of the n values appended so far, in
\* arrival order.
C5_FifoWindow ==
    speed_samples_lock = 0 =>
        /\ Len(speed_samples) = Min(Len(appended), SampleCap)
        /\ \A i \in 1..Len(speed_samples) :
              speed_samples[i] = appended[Len(appended) - Len(speed_samples) + i]

\* 250 values 1..250 were appended and exactly 51..250 are retained
C5_Witness ==
    /\ speed_samples_lock = 0
    /\ Len(appended) = 250
    /\ appended[1] = 1 /\ appended[250] = 250
    /\ Len(speed_samples) = SampleCap
    /\ speed_samples[1] = 51
    /\ speed_samples[SampleCap] = 250

\* C6: a run whose launch fails ends (lines 300-301 / 304-305) with an error
\* message set, speedtest_running false, the result text and the samples
\* empty, and no output line read.
C6_LaunchFailureState ==
    [][\A w \in Workers :
          (wpc[w] = "l300" /\ wpc'[w] = "done")
            => /\ speedtest_error' # "None"
               /\ ~speedtest_running'
               /\ speedtest_result_text' = <<>>
               /\ speed_samples' = <<>>
               /\ nread'[w] = 0]_vars

\* C7: at the kill prompt, 0 cancels without a termination call, every other
\* integer outside 1..L prints "Invalid selection" without a termination
\* call, and a termination call is made only for a choice in 1..L, on the
\* process listed at that position.
C7_KillPromptChoices ==
    (mpc = "l273" /\ choice.isInt) =>
        /\ (choice.n = 0 => (term_call = 0 /\ console = <<"Canceled.">>))
        /\ ((choice.n # 0 /\ choice.n \notin 1..Len(top_procs))
              => (term_call = 0 /\ console = <<"Invalid selection">>))
        /\ (term_call # 0
              => (choice.n \in 1..Len(top_procs) /\ term_call = top_procs[choice.n]))

\* C8: on a tick whose freeze test reads true, render_layout is not entered
\* and the layout keeps its content, while that tick's get_system_stats and
\* get_top_processes have run; the layout changes in render steps only, and
\* render_layout is entered only from a freeze test that read false.
C8_FreezeSkipsRender ==
    [][/\ (mpc = "l357" /\ mpc' # "l357" /\ freeze_requested)
            => /\ mpc' = "l360"
               /\ layout' = layout
               /\ stats = tick /\ prev_time = tick
               /\ stats' = stats /\ prev_time' = prev_time
       /\ (layout' # layout => mpc \in {"l235", "l220"})
       /\ ((mpc' = "l235" /\ mpc # "l235") => (mpc = "l357" /\ ~freeze_requested))
       /\ ((mpc' = "l357" /\ mpc # "l357") => (mpc = "l354" /\ stats' = tick /\ prev_time' = tick))
      ]_vars

\* a frozen tick: the freeze flag is set, this tick has sampled, and the
\* layout still shows an earlier tick's content
C8_Witness ==
    /\ mpc = "l360"
    /\ freeze_requested
    /\ stats = tick
    /\ layout # NoLayout
    /\ layout.stats # tick

\* C9: every 'k' press is eventually followed by the main loop clearing
\* kill_requested and opening the kill prompt (the state right after line 361,
\* entering kill_process_prompt), and a kill test that finds the flag set
\* always goes on to clear it in that tick.
C9_KillRequestServed ==
    /\ kill_requested ~> (mpc = "l256" /\ ~kill_requested)
    /\ [][(mpc = "l360" /\ mpc' # "l360" /\ kill_requested) => mpc' = "l361"]_vars

\* a second 'k' press arrives while a prompt is already open
C9_Witness == mpc = "l263" /\ kill_requested /\ presses["k"] = 2

\* C10: once a listener has stored its toggle, the flag equals "the number of
\* presses of its key is odd", for the freeze and for the speedtest flag; and
\* no step of the main loop writes either flag.
C10_NoToggleLost ==
    /\ [](/\ (fpc = "wait" => freeze_requested = Odd(presses["f"]))
          /\ (npc # "store" => speedtest_toggle = Odd(presses["n"])))
    /\ [][mpc' # mpc => UNCHANGED <<freeze_requested, speedtest_toggle>>]_vars

\* both keys were pressed (f twice, n three times) while the main loop is
\* inside the panel it entered on reading speedtest_toggle
C10_Witness ==
    /\ presses["f"] = 2 /\ fpc = "wait" /\ ~freeze_requested
    /\ presses["n"] = 3 /\ npc = "wait" /\ speedtest_toggle
    /\ mpc = "l220"

\* 'n' presses whose new level has been stored in speedtest_toggle, and those
\* of them that flipped it from false to true (the odd ones)
FlipsDone == presses["n"] - (IF npc = "store" THEN 1 ELSE 0)
RisingFlips == (FlipsDone + 1) \div 2
\* the listener is between a rising flip and its run_speedtest_background call
CallPending == IF npc = "l51" \/ (npc = "l50" /\ speedtest_toggle) THEN 1 ELSE 0

\* C11 as stated: every 'n' press that flips speedtest_toggle from false to
\* true results in one probe run (one _worker started), and a press that
\* flips it from true to false in none.
C11_OneRunPerRisingFlip == starts.spawned + CallPending = RisingFlips

\* C11, amended: every 'n' press that flips speedtest_toggle from false to
\* true makes exactly one call of run_speedtest_background and a press that
\* flips it from true to false makes none; the call starts one _worker when
\* it reads speedtest_running false and none when it reads it true.
C11_OneCallPerRisingFlip ==
    /\ [](starts.calls + CallPending = RisingFlips /\ starts.spawned <= starts.calls)
    /\ [][(npc = "l50" /\ npc' # "l50") => (npc' = "l51") = speedtest_toggle]_vars
    /\ [][(npc = "l51" /\ npc' # "l51")
            => /\ starts'.calls = starts.calls + 1
               /\ starts'.spawned = starts.spawned + (IF speedtest_running THEN 0 ELSE 1)]_vars

\* on, off, on: two rising flips and a falling one, two calls, the second one
\* made while the first run was still in progress
C11_Witness ==
    /\ presses["n"] = 3 /\ npc = "wait"
    /\ starts = [calls |-> 2, spawned |-> 1]

\* C12: a KeyboardInterrupt delivered at any point of the main loop (also
\* while the kill prompt waits for input) ends the loop and prints the exit
\* message; it is never swallowed with the loop going on.
C12_InterruptExits ==
    interrupts > 0 => (mpc = "exit" /\ console = <<"Exiting Sour CLI Sys Monitor...">>)

\* C13: the network rates of the snapshot are zero on the first tick of the
\* main loop and non-negative on every later tick.
C13_RatesZeroThenNonNeg ==
    /\ ncalls = 1 => (IsZeroRate(net_rates[1]) /\ IsZeroRate(net_rates[2]))
    /\ ncalls > 1 => (NonNegRate(net_rates[1]) /\ NonNegRate(net_rates[2]))

\* C14: a call of get_system_stats with no previous sample, or with an
\* elapsed time dt <= 0 since the previous one, computes both rates as
\* exactly 0; every call overwrites prev_net and prev_time with the current
\* counters and time stamp.
C14_NoRateWithoutElapsedTime ==
    [][ncalls' # ncalls
         => /\ (prev_net = <<>> \/ prev_time = 0 \/ clock - prev_time <= 0)
                 => (IsZeroRate(net_rates'[1]) /\ IsZeroRate(net_rates'[2]))
            /\ prev_net' = net
            /\ prev_time' = clock]_vars

\* a call made after the clock was set back behind the previous sample, with
\* traffic in between
C14_Witness ==
    /\ ncalls >= 2
    /\ net_rates = <<RateZero, RateZero>>
    /\ prev_net # <<0, 0>>
    /\ prev_time = 1

\* the place of the i-th enumerated process in the full stable descending
\* sort: behind every process with more cpu, and behind the earlier ones
\* with as much
PlaceOf(procs, i) ==
    1 + Cardinality({j \in 1..Len(procs) :
                        \/ procs[j].cpu_percent > procs[i].cpu_percent
                        \/ (procs[j].cpu_percent = procs[i].cpu_percent /\ j < i)})
FullStableSort(procs) ==
    [k \in 1..Len(procs) |-> procs[CHOOSE i \in 1..Len(procs) : PlaceOf(procs, i) = k]]

\* C15: get_top_processes returns min(limit, number of processes) entries,
\* sorted descending by cpu_percent, entries with equal cpu_percent in their
\* enumeration order, and the result is a prefix of the full stable
\* descending sort of the enumerated list.
C15_TopProcessesSorted ==
    rank_out # NoRank =>
        /\ Len(rank_out) = Min(rank_limit, Len(rank_procs))
        /\ \A i, j \in 1..Len(rank_out) :
              i < j => \/ rank_out[i].cpu_percent > rank_out[j].cpu_percent
                       \/ /\ rank_out[i].cpu_percent = rank_out[j].cpu_percent
                          /\ rank_out[i].pid < rank_out[j].pid
        /\ rank_out = SubSeq(FullStableSort(rank_procs), 1, Len(rank_out))

\* three processes, the last two with equal cpu above the first, limit 2
C15_Witness ==
    /\ Len(rank_procs) = 3 /\ rank_limit = 2
    /\ rank_procs[1].cpu_percent < rank_procs[2].cpu_percent
    /\ rank_procs[2].cpu_percent = rank_procs[3].cpu_percent
    /\ rank_out = <<rank_procs[2], rank_procs[3]>>

\* worker w is about to execute a line that assigns the result text, the
\* error or the samples; the main thread is about to read them for the panel
WritesProbeState(w) ==
    wpc[w] \in {"l285", "l286", "l288", "l299", "l303", "l315", "l324", "l325", "l330"}
ReadsProbeState == mpc = "l220"

\* the panel is read while a new run has emptied the text (line 285) and the
\* samples are still those of the run before (line 288 not reached)
MixedSnapshot ==
    /\ ReadsProbeState
    /\ speed_samples # <<>>
    /\ \E w \in Workers : wpc[w] \in {"l286", "l287"}

\* C16: every write of the result text, the error and the samples by a
\* worker, and every read of them for the panel, is made holding
\* speed_samples_lock, and the panel is never read in a mixed state (the new
\* run's emptied text with the previous run's samples).
C16_ProbeStateLocked ==
    /\ \A w \in Workers : WritesProbeState(w) => speed_samples_lock = w
    /\ ReadsProbeState => speed_samples_lock = MainHolder
    /\ ~MixedSnapshot

\* C17: a call of run_speedtest_background made while speedtest_running is
\* false has, when it returns, emptied the result text, the error and the
\* samples and set speedtest_running to true (all before the thread runs).
C17_StartResetsBeforeSpawn ==
    [][(npc = "l51" /\ npc' # "l51" /\ ~speedtest_running)
         => /\ speedtest_running'
            /\ speedtest_result_text' = <<>>
            /\ speedtest_error' = "None"
            /\ speed_samples' = <<>>]_vars

\* what the prompt has printed when it closes: cancel, a selection whose
\* kill_proc_tree succeeded or failed, an input that is no valid selection
PromptOutcomes ==
    {<<"Canceled.">>, <<"Killed">>, <<"Error killing process", "Killed">>,
     <<"Invalid selection">>}

\* C18: live rendering is stopped exactly while the kill prompt is open; the
\* prompt closes with one of its outcomes, and whichever it is live.start()
\* is called before the main loop goes on, which then reaches its next tick
\* with rendering started.
C18_PromptResumesLive ==
    /\ [](live = "stopped" <=> mpc \in {"l263", "l273"})
    /\ [](mpc = "l273" => console \in PromptOutcomes)
    /\ [][(mpc = "l273" /\ mpc' # "l273") => (live' = "started" /\ mpc' = "l364")]_vars
    /\ mpc = "l256" ~> mpc = "l273"
    /\ mpc = "l273" ~> (mpc = "l354" /\ live = "started")

\* the prompt is closing after a selection whose termination failed
C18_Witness ==
    /\ mpc = "l273" /\ live = "stopped"
    /\ term_call # 0
    /\ console = <<"Error killing process", "Killed">>

\* C19: a kill prompt is opened only in a tick whose test of line 360 read
\* kill_requested true, and only after line 361 has set it to false; the
\* number of prompts opened never exceeds the number of 'k' presses.
C19_KillFlagConsumedOnce ==
    /\ [](prompts <= presses["k"])
    /\ [][/\ (prompts' # prompts => (mpc = "l256" /\ prompts' = prompts + 1))
          /\ ((mpc' = "l256" /\ mpc # "l256") => (mpc = "l361" /\ ~kill_requested'))
          /\ ((mpc' = "l361" /\ mpc # "l361") => (mpc = "l360" /\ kill_requested))
         ]_vars

\* two 'k' presses, each served by a prompt of its own; the second prompt is open
C19_Witness ==
    /\ mpc = "l263" /\ prompts = 2
    /\ presses["k"] = 2 /\ ~kill_requested

\* C20: speed_samples_lock is held only inside the with blocks (lines 288,
\* 315, 324-326 of a worker, lines 220-222 of the main thread), never while
\* a thread reads a line, waits for the subprocess, starts a thread or has
\* ended; every holder releases it, every thread waiting for it gets it, and
\* the panel read of the main loop always completes.
C20_LockAlwaysReleased ==
    /\ [](/\ speed_samples_lock \in {0, MainHolder} \cup Workers
          /\ speed_samples_lock = MainHolder <=> mpc = "l220"
          /\ \A w \in Workers :
                speed_samples_lock = w <=> wpc[w] \in {"l288", "l315", "l324", "l325"})
    /\ speed_samples_lock # 0 ~> speed_samples_lock = 0
    /\ mpc = "l219" ~> mpc = "l360"
    /\ \A w \in Workers :
          wpc[w] \in {"l287", "l314", "l323"} ~> speed_samples_lock = w

\* the main thread waits for the lock while a worker holds it to append a sample
C20_Witness ==
    /\ mpc = "l219"
    /\ \E w \in Workers : speed_samples_lock = w /\ wpc[w] = "l324"

====
